---- MODULE Spec2Model ----
(***************************************************************************)
(* A model of vmm.c: demand-paged address translation with a 16-entry TLB, *)
(* a 256-entry page table, a free-frame list and a backing store file.     *)
(*                                                                         *)
(* One iteration of the driver loop of main() is one action (Translate);   *)
(* the end of the address file is the action EndOfStream.  The functions   *)
(* of vmm.c are operators from the globals they read (a record g of the    *)
(* globals) to the globals they leave and the value they return.           *)
(*                                                                         *)
(* A 256-byte buffer (temp_frame, one frame of physical_memory) is kept as *)
(* two runs of bytes: the bytes [0, ShortLen) and the bytes [ShortLen,     *)
(* 256).  Each run is named by the file position the buffer's byte 0 had   *)
(* in the fread that filled the run (byte i of the run is the backing      *)
(* store's byte base + i), or by ZeroFill for the zero bytes a global      *)
(* array starts with.  The reads of the model deliver 0, ShortLen or 256   *)
(* bytes, so the two runs describe every byte of every buffer.             *)
(***************************************************************************)
EXTENDS Integers, Sequences, FiniteSets, TLC

VARIABLES
    page_table,             \* int page_table[256]
    free_frames,            \* int free_frames[256]
    number_of_free_frames,  \* int number_of_free_frames
    tlb,                    \* struct tlb_entry tlb[TLB_SIZE]
    next_free_tlb_index,    \* int next_free_tlb_index
    page_faults,            \* int page_faults
    tlb_hits,               \* int tlb_hits
    physical_memory,        \* signed char physical_memory[256][256]
    temp_frame,             \* signed char temp_frame[256]
    file_pos,               \* the file position of backing_store
    logical_address,        \* int logical_address
    page_number,            \* int page_number
    offset,                 \* int offset
    frame_number,           \* int frame_number
    physical_address,       \* int physical_address
    value,                  \* signed char value
    output,                 \* the records printed on stdout, in order
    backing_store,          \* FILE * backing_store: "open", or "null" (fopen failed)
    address_list,           \* FILE * address_list: "open", or "null" (fopen failed)
    exit_status,            \* how the process has ended, "running" until then
    done,                   \* main() has left the loop, or the process has ended
    history                 \* history of the run (no variable of vmm.c)

vars == <<page_table, free_frames, number_of_free_frames, tlb, next_free_tlb_index,
          page_faults, tlb_hits, physical_memory, temp_frame, file_pos,
          logical_address, page_number, offset, frame_number, physical_address,
          value, output, backing_store, address_list, exit_status, done, history>>

-----------------------------------------------------------------------------
(* Program constants *)

PAGE_NUMBER_MASK == 65280
OFFSET_MASK == 255
TLB_SIZE == 16
NumPages == 256
NumFrames == 256
PageSize == 256
UIntWidth == 32

(* Bounds of the model *)

\* the addresses one run of Spec reads
MaxStream == 3
\* the length of a short read (0 < ShortLen < PageSize)
ShortLen == 100
\* the distinct pages a run of SpecFifo references
MaxFifoPages == 18
\* the references of a run of SpecFifo to a page referenced before
MaxReRef == 3
\* a run of SpecDecode draws its second address from the multiples k * 9973 of
\* a prime, -MaxDecode <= k <= MaxDecode, and from DecodeEdges
MaxDecode == 40
\* the failed page loads of a run of SpecFill
MaxFillFail == 1
\* the references of a run of SpecFill to a page bound before
MaxFillReRef == 2

Pages == 0 .. (NumPages - 1)
Frames == 0 .. (NumFrames - 1)
TlbSlots == 0 .. (TLB_SIZE - 1)
Offsets == 0 .. (PageSize - 1)

\* the zero bytes of a global array nothing was read into
ZeroFill == -1

\* the byte counts an fread of 256 bytes delivers in the model
ReadCounts == {0, ShortLen, PageSize}

\* the addresses atoi delivers to a run of Spec: page 1 offset 1, page 1 offset
\* 44 (with bit 16 set) and page 255 offset 255 (a negative int)
Addresses == {257, 65536 + 300, -1}

\* the size of the backing store file
StoreSize == NumPages * PageSize

\* what physical_memory[-1][offset] can read: the bytes before the array
UndefinedBytes == {0, 85}

-----------------------------------------------------------------------------
(* The backing store: byte k of the file, as a signed char *)

StoreByte(k) == (((k \div PageSize) * 7 + (k % PageSize) * 3 + 1) % 256) - 128

\* byte i of a buffer kept as two runs
ByteOf(buf, i) ==
    LET base == IF i < ShortLen THEN buf.lo ELSE buf.hi
    IN  IF base = ZeroFill THEN 0 ELSE StoreByte(base + i)

ZeroBuffer == [lo |-> ZeroFill, hi |-> ZeroFill]

-----------------------------------------------------------------------------
(* Bit operations of C on unsigned int *)

Pow2(n) == 2 ^ n

\* the conversion of an int argument to unsigned int (a modulo 2^32), kept as
\* bit 31 and the low 31 bits: the model checker's integers are 32-bit integers
ToUnsigned(a) ==
    [top |-> IF a < 0 THEN 1 ELSE 0,
     low |-> IF a < 0 THEN (a + Pow2(UIntWidth - 2)) + Pow2(UIntWidth - 2) ELSE a]

RECURSIVE BitAnd(_, _)
BitAnd(a, b) ==
    IF a = 0 \/ b = 0 THEN 0
    ELSE (a % 2) * (b % 2) + 2 * BitAnd(a \div 2, b \div 2)

\* u & mask for a mask whose bit 31 is clear
MaskOf(u, mask) == BitAnd(u.low, mask)

RECURSIVE ShiftRight(_, _)
ShiftRight(a, n) == IF n = 0 THEN a ELSE ShiftRight(a \div 2, n - 1)

get_page_number(address) == ShiftRight(MaskOf(ToUnsigned(address), PAGE_NUMBER_MASK), 8)

\* get_offset with the mask of the low 16 bits
get_offset_WideMask(address) == MaskOf(ToUnsigned(address), 65535)

get_offset(address) == MaskOf(ToUnsigned(address), OFFSET_MASK)

-----------------------------------------------------------------------------
(* The globals the functions of vmm.c work on, as one record *)

Globals ==
    [page_table |-> page_table, free_frames |-> free_frames,
     number_of_free_frames |-> number_of_free_frames, tlb |-> tlb,
     next_free_tlb_index |-> next_free_tlb_index, page_faults |-> page_faults,
     tlb_hits |-> tlb_hits, physical_memory |-> physical_memory,
     temp_frame |-> temp_frame, file_pos |-> file_pos]

init_page_table == [p \in Pages |-> -1]

init_free_frames == [f \in Frames |-> 1]

init_tlb == [i \in TlbSlots |-> [page_number |-> -1, frame_number |-> -1, valid |-> -1]]

\* the while loop of get_next_free_frame: the first index from i whose entry is
\* not -1; NumFrames when the scan leaves the array
FreeScan(ff, i) ==
    LET stops == {j \in i .. (NumFrames - 1) : ff[j] # -1}
    IN  IF stops = {} THEN NumFrames
        ELSE CHOOSE j \in stops : \A m \in stops : j <= m

\* get_next_free_frame without its free_frames[i] = -1
get_next_free_frame_NoMark(g) ==
    IF g.number_of_free_frames > 0
    THEN LET i == FreeScan(g.free_frames, 0)
         IN  [g   |-> [g EXCEPT !.number_of_free_frames = @ - 1],
              ret |-> i]
    ELSE [g |-> g, ret |-> -1]

\* get_next_free_frame without its number_of_free_frames--
get_next_free_frame_NoDecrement(g) ==
    IF g.number_of_free_frames > 0
    THEN LET i == FreeScan(g.free_frames, 0)
         IN  [g   |-> [g EXCEPT !.free_frames =
                                   IF i \in Frames THEN [@ EXCEPT ![i] = -1] ELSE @],
              ret |-> i]
    ELSE [g |-> g, ret |-> -1]

\* a scan of free_frames from its last entry down
RECURSIVE FreeScanDown(_, _)
FreeScanDown(ff, i) ==
    IF i < 0 THEN -1
    ELSE IF ff[i] = -1 THEN FreeScanDown(ff, i - 1) ELSE i

\* get_next_free_frame that takes the highest free frame
get_next_free_frame_Highest(g) ==
    IF g.number_of_free_frames > 0
    THEN LET i == FreeScanDown(g.free_frames, NumFrames - 1)
         IN  [g   |-> [g EXCEPT !.free_frames =
                                   IF i \in Frames THEN [@ EXCEPT ![i] = -1] ELSE @,
                                !.number_of_free_frames = @ - 1],
              ret |-> i]
    ELSE [g |-> g, ret |-> -1]

get_next_free_frame(g) ==
    IF g.number_of_free_frames > 0
    THEN LET i == FreeScan(g.free_frames, 0)
         IN  [g   |-> [g EXCEPT !.free_frames =
                                   IF i \in Frames THEN [@ EXCEPT ![i] = -1] ELSE @,
                                !.number_of_free_frames = @ - 1],
              ret |-> i]
    ELSE [g |-> g, ret |-> -1]

\* the for loop of check_tlb: the first slot from i that holds page p and is
\* valid; -1 when there is none
RECURSIVE TlbScan(_, _, _)
TlbScan(t, p, i) ==
    IF i >= TLB_SIZE THEN -1
    ELSE IF t[i].page_number = p /\ t[i].valid = 1 THEN i
    ELSE TlbScan(t, p, i + 1)

\* check_tlb without its ++tlb_hits
check_tlb_NoCount(g, p) ==
    LET i == TlbScan(g.tlb, p, 0)
    IN  IF i = -1
        THEN [g |-> g, ret |-> -1]
        ELSE [g |-> g, ret |-> g.tlb[i].frame_number]

check_tlb(g, p) ==
    LET i == TlbScan(g.tlb, p, 0)
    IN  IF i = -1
        THEN [g |-> g, ret |-> -1]
        ELSE [g |-> [g EXCEPT !.tlb_hits = @ + 1], ret |-> g.tlb[i].frame_number]

\* update_tlb with its two arguments taken in the other order
update_tlb_Swapped(g, p, f) ==
    [g EXCEPT !.tlb[g.next_free_tlb_index] =
                  [page_number |-> f, frame_number |-> p, valid |-> 1],
              !.next_free_tlb_index = (g.next_free_tlb_index + 1) % TLB_SIZE]

\* update_tlb that leaves next_free_tlb_index where it is
update_tlb_NoAdvance(g, p, f) ==
    [g EXCEPT !.tlb[g.next_free_tlb_index] =
                  [page_number |-> p, frame_number |-> f, valid |-> 1]]

update_tlb(g, p, f) ==
    [g EXCEPT !.tlb[g.next_free_tlb_index] =
                  [page_number |-> p, frame_number |-> f, valid |-> 1],
              !.next_free_tlb_index = (g.next_free_tlb_index + 1) % TLB_SIZE]

\* fseek(backing_store, target, SEEK_SET): the position after the call
fseek(pos, target, seek_ok) == IF seek_ok THEN target ELSE pos

\* the bytes a read of n bytes at pos delivers: none past the end of the file
Delivered(pos, n) ==
    IF pos + n <= StoreSize THEN n
    ELSE IF n > ShortLen /\ pos + ShortLen <= StoreSize THEN ShortLen
    ELSE 0

\* fread(temp_frame, 1, 256, backing_store) that is to deliver n bytes from pos
fread(buf, pos, n) ==
    LET d == Delivered(pos, n)
    IN  [buf |-> [lo |-> IF d >= ShortLen THEN pos ELSE buf.lo,
                  hi |-> IF d >= PageSize THEN pos ELSE buf.hi],
         pos |-> pos + d,
         ret |-> d]

\* check_page_table that takes a page bound to frame 0 for an unmapped page
\* (the test frame_number <= 0 for frame_number == -1)
check_page_table_RefaultFrameZero(g, p, seek_ok, n) ==
    IF g.page_table[p] > 0
    THEN [g |-> g, ret |-> g.page_table[p]]
    ELSE LET g1 == [g EXCEPT !.page_faults = @ + 1,
                             !.file_pos = fseek(@, p * 256, seek_ok)]
             rd == fread(g1.temp_frame, g1.file_pos, n)
             g2 == [g1 EXCEPT !.temp_frame = rd.buf, !.file_pos = rd.pos]
         IN  IF rd.ret = 0
             THEN [g |-> g2, ret |-> -1]
             ELSE LET al == get_next_free_frame(g2)
                      f  == al.ret
                      g3 == [al.g EXCEPT !.page_table[p] = f]
                      g4 == IF f >= 0 /\ f \in Frames
                            THEN [g3 EXCEPT !.physical_memory[f] = g3.temp_frame]
                            ELSE g3
                  IN  [g |-> update_tlb(g4, p, f), ret |-> f]

\* check_page_table with its ++page_faults before the test for a page fault
check_page_table_CountOnHit(g, p, seek_ok, n) ==
    IF g.page_table[p] # -1
    THEN [g |-> [g EXCEPT !.page_faults = @ + 1], ret |-> g.page_table[p]]
    ELSE LET g1 == [g EXCEPT !.page_faults = @ + 1,
                             !.file_pos = fseek(@, p * 256, seek_ok)]
             rd == fread(g1.temp_frame, g1.file_pos, n)
             g2 == [g1 EXCEPT !.temp_frame = rd.buf, !.file_pos = rd.pos]
         IN  IF rd.ret = 0
             THEN [g |-> g2, ret |-> -1]
             ELSE LET al == get_next_free_frame(g2)
                      f  == al.ret
                      g3 == [al.g EXCEPT !.page_table[p] = f]
                      g4 == IF f >= 0 /\ f \in Frames
                            THEN [g3 EXCEPT !.physical_memory[f] = g3.temp_frame]
                            ELSE g3
                  IN  [g |-> update_tlb(g4, p, f), ret |-> f]

\* check_page_table with its update_tlb after the if, for every resolved page
check_page_table_InsertOnHit(g, p, seek_ok, n) ==
    IF g.page_table[p] # -1
    THEN [g |-> update_tlb(g, p, g.page_table[p]), ret |-> g.page_table[p]]
    ELSE LET g1 == [g EXCEPT !.page_faults = @ + 1,
                             !.file_pos = fseek(@, p * 256, seek_ok)]
             rd == fread(g1.temp_frame, g1.file_pos, n)
             g2 == [g1 EXCEPT !.temp_frame = rd.buf, !.file_pos = rd.pos]
         IN  IF rd.ret = 0
             THEN [g |-> g2, ret |-> -1]
             ELSE LET al == get_next_free_frame(g2)
                      f  == al.ret
                      g3 == [al.g EXCEPT !.page_table[p] = f]
                      g4 == IF f >= 0 /\ f \in Frames
                            THEN [g3 EXCEPT !.physical_memory[f] = g3.temp_frame]
                            ELSE g3
                  IN  [g |-> update_tlb(g4, p, f), ret |-> f]

\* check_page_table that counts the page fault after the read has succeeded
check_page_table_CountAfterLoad(g, p, seek_ok, n) ==
    IF g.page_table[p] # -1
    THEN [g |-> g, ret |-> g.page_table[p]]
    ELSE LET g1 == [g EXCEPT !.file_pos = fseek(@, p * 256, seek_ok)]
             rd == fread(g1.temp_frame, g1.file_pos, n)
             g2 == [g1 EXCEPT !.temp_frame = rd.buf, !.file_pos = rd.pos]
         IN  IF rd.ret = 0
             THEN [g |-> g2, ret |-> -1]
             ELSE LET al == get_next_free_frame([g2 EXCEPT !.page_faults = @ + 1])
                      f  == al.ret
                      g3 == [al.g EXCEPT !.page_table[p] = f]
                      g4 == IF f >= 0 /\ f \in Frames
                            THEN [g3 EXCEPT !.physical_memory[f] = g3.temp_frame]
                            ELSE g3
                  IN  [g |-> update_tlb(g4, p, f), ret |-> f]

\* check_page_table that takes the frame before it reads the page
check_page_table_AllocFirst(g, p, seek_ok, n) ==
    IF g.page_table[p] # -1
    THEN [g |-> g, ret |-> g.page_table[p]]
    ELSE LET g1 == [g EXCEPT !.page_faults = @ + 1,
                             !.file_pos = fseek(@, p * 256, seek_ok)]
             al == get_next_free_frame(g1)
             f  == al.ret
             rd == fread(al.g.temp_frame, al.g.file_pos, n)
             g2 == [al.g EXCEPT !.temp_frame = rd.buf, !.file_pos = rd.pos]
         IN  IF rd.ret = 0
             THEN [g |-> g2, ret |-> -1]
             ELSE LET g3 == [g2 EXCEPT !.page_table[p] = f]
                      g4 == IF f >= 0 /\ f \in Frames
                            THEN [g3 EXCEPT !.physical_memory[f] = g3.temp_frame]
                            ELSE g3
                  IN  [g |-> update_tlb(g4, p, f), ret |-> f]

check_page_table(g, p, seek_ok, n) ==
    IF g.page_table[p] # -1
    THEN [g |-> g, ret |-> g.page_table[p]]
    ELSE LET g1 == [g EXCEPT !.page_faults = @ + 1,
                             !.file_pos = fseek(@, p * 256, seek_ok)]
             rd == fread(g1.temp_frame, g1.file_pos, n)
             g2 == [g1 EXCEPT !.temp_frame = rd.buf, !.file_pos = rd.pos]
         IN  IF rd.ret = 0
             THEN [g |-> g2, ret |-> -1]
             ELSE LET al == get_next_free_frame(g2)
                      f  == al.ret
                      g3 == [al.g EXCEPT !.page_table[p] = f]
                      g4 == IF f >= 0 /\ f \in Frames
                            THEN [g3 EXCEPT !.physical_memory[f] = g3.temp_frame]
                            ELSE g3
                  IN  [g |-> update_tlb(g4, p, f), ret |-> f]

-----------------------------------------------------------------------------
(* History of the run *)

NoHistory ==
    [count      |-> 0,      \* addresses read
     referenced |-> {},     \* pages referenced
     inserted   |-> <<>>,   \* pages given to update_tlb, in order
     failed     |-> 0,      \* page loads that returned -1
     rerefs     |-> 0,      \* references to a page referenced before
     path       |-> "none", \* the path of the last translation
     seek_ok    |-> TRUE,   \* the last page load: its seek succeeded
     delivered  |-> 0]      \* the last page load: the bytes its read delivered

\* the path of a translation: its TLB lookup, then its page-table lookup
PathOf(g, p, loaded) ==
    IF TlbScan(g.tlb, p, 0) # -1 /\ g.tlb[TlbScan(g.tlb, p, 0)].frame_number # -1
    THEN "tlb_hit"
    ELSE IF g.page_table[p] # -1 THEN "page_table_hit"
    ELSE IF loaded THEN "page_fault"
    ELSE "load_failed"

-----------------------------------------------------------------------------
(* main() *)

InitGlobals ==
    /\ page_table = init_page_table
    /\ free_frames = init_free_frames
    /\ number_of_free_frames = 256
    /\ tlb = init_tlb
    /\ next_free_tlb_index = 0
    /\ page_faults = 0
    /\ tlb_hits = 0
    /\ physical_memory = [f \in Frames |-> ZeroBuffer]
    /\ temp_frame = ZeroBuffer
    /\ file_pos = 0
    /\ logical_address = 0
    /\ page_number = 0
    /\ offset = 0
    /\ frame_number = 0
    /\ physical_address = 0
    /\ value = 0
    /\ output = <<>>
    /\ exit_status = "running"
    /\ done = FALSE
    /\ history = NoHistory

\* the state at the while loop when both fopen calls succeeded
Init ==
    /\ InitGlobals
    /\ backing_store = "open"
    /\ address_list = "open"

\* one iteration of the while loop: the line read is address a; if the page is
\* loaded, the seek succeeds or not and the read delivers n bytes; an access
\* outside physical_memory reads the byte u
Translate(a, seek_ok, n, u) ==
    /\ ~done
    /\ address_list = "open"
    /\ \E p \in {get_page_number(a)}, o \in {get_offset(a)} :
       \E c \in {check_tlb(Globals, p)} :
       \E r \in {IF c.ret = -1 THEN check_page_table(c.g, p, seek_ok, n) ELSE c} :
       \E f \in {r.ret} :
       \E pa \in {(f * 256) + o} :
       \E v \in {IF f \in Frames THEN ByteOf(r.g.physical_memory[f], o) ELSE u} :
           /\ page_table' = r.g.page_table
           /\ free_frames' = r.g.free_frames
           /\ number_of_free_frames' = r.g.number_of_free_frames
           /\ tlb' = r.g.tlb
           /\ next_free_tlb_index' = r.g.next_free_tlb_index
           /\ page_faults' = r.g.page_faults
           /\ tlb_hits' = r.g.tlb_hits
           /\ physical_memory' = r.g.physical_memory
           /\ temp_frame' = r.g.temp_frame
           /\ file_pos' = r.g.file_pos
           /\ logical_address' = a
           /\ page_number' = p
           /\ offset' = o
           /\ frame_number' = f
           /\ physical_address' = pa
           /\ value' = v
           /\ output' = Append(output, [kind |-> "translation", logical_address |-> a,
                                        physical_address |-> pa, value |-> v])
           /\ history' =
                [count      |-> history.count + 1,
                 referenced |-> history.referenced \cup {p},
                 inserted   |-> IF r.g.next_free_tlb_index # next_free_tlb_index
                                   \/ r.g.tlb # tlb
                                THEN Append(history.inserted, p)
                                ELSE history.inserted,
                 failed     |-> history.failed + (IF f = -1 THEN 1 ELSE 0),
                 rerefs     |-> history.rerefs +
                                (IF p \in history.referenced THEN 1 ELSE 0),
                 path       |-> PathOf(Globals, p, f # -1),
                 seek_ok    |-> IF r.g.page_faults # page_faults
                                THEN seek_ok ELSE history.seek_ok,
                 delivered  |-> IF r.g.page_faults # page_faults
                                THEN Delivered(fseek(file_pos, p * 256, seek_ok), n)
                                ELSE history.delivered]
           /\ UNCHANGED <<backing_store, address_list, exit_status, done>>

\* fgets returns NULL: the two summary lines are printed, the files are closed
\* and main returns 0; fclose of a null FILE * is undefined: the process
\* returns 0 all the same, or is killed
EndOfStream ==
    /\ ~done
    /\ done' = TRUE
    /\ output' = output \o <<[kind |-> "page_faults", count |-> page_faults],
                             [kind |-> "tlb_hits", count |-> tlb_hits]>>
    /\ exit_status' \in (IF backing_store = "open" /\ address_list = "open"
                         THEN {"exit_0"} ELSE {"exit_0", "killed"})
    /\ UNCHANGED <<page_table, free_frames, number_of_free_frames, tlb,
                   next_free_tlb_index, page_faults, tlb_hits, physical_memory,
                   temp_frame, file_pos, logical_address, page_number, offset,
                   frame_number, physical_address, value, backing_store,
                   address_list, history>>

\* a run on an address file of at most MaxStream lines over Addresses, with
\* every outcome of the seek and of the read
Step ==
    /\ history.count < MaxStream
    /\ \E a \in Addresses, seek_ok \in BOOLEAN, n \in ReadCounts, u \in UndefinedBytes :
          Translate(a, seek_ok, n, u)

Next == Step \/ EndOfStream

Spec == Init /\ [][Next]_vars

\* the k-th distinct page of a run of SpecFifo, and the address that references it
FifoPage(k) == (2 * k) + 1

FifoAddress(k) == (FifoPage(k) * PageSize) + k

\* the address of a later reference to the k-th page: another offset of the page
FifoReAddress(k) == FifoAddress(k) + 100

\* a run on an address file that references the pages FifoPage(0), FifoPage(1),
\* ... in this order and in between, at most MaxReRef times, the first, the
\* second or the latest of them again, while the TLB holds one page or is full (at most one
\* page, or at least TLB_SIZE pages, were referenced); every seek succeeds and
\* every read is a full read
StepFifo ==
    \E k \in {Cardinality(history.referenced)} :
    \E j \in {i \in {0, 1, k - 1, k} :
                 /\ i >= 0 /\ i <= k
                 /\ i = k => k < MaxFifoPages
                 /\ i < k => /\ history.rerefs < MaxReRef
                             /\ k <= 1 \/ k >= TLB_SIZE} :
        Translate(IF j < k THEN FifoReAddress(j) ELSE FifoAddress(j), TRUE, PageSize, 0)

NextFifo == StepFifo \/ EndOfStream

SpecFifo == Init /\ [][NextFifo]_vars

\* addresses at the edges of a page, of the low 16 bits and of int
DecodeEdges ==
    {-65537, -65536, -65535, -257, -256, -255, -1, 0, 1, 255, 256, 257,
     65279, 65280, 65281, 65535, 65536, 65537, 2147483647, -2147483647,
     (-2147483647) - 1}

DecodeAddresses == DecodeEdges \cup {k * 9973 : k \in (-MaxDecode) .. MaxDecode}

\* a run on an address file of two lines, the first over Addresses and the
\* second over DecodeAddresses; every seek succeeds and every read is a full read
StepDecode ==
    \/ /\ history.count = 0
       /\ \E a \in Addresses : Translate(a, TRUE, PageSize, 0)
    \/ /\ history.count = 1
       /\ \E a \in DecodeAddresses : Translate(a, TRUE, PageSize, 0)

NextDecode == StepDecode \/ EndOfStream

SpecDecode == Init /\ [][NextDecode]_vars

\* the k-th distinct page of a run of SpecFill, and the address that references it
FillPage(k) == ((k * 7) + 3) % NumPages

FillAddress(k) == (FillPage(k) * PageSize) + (k % PageSize)

\* a run on an address file that references all the pages, FillPage(0),
\* FillPage(1), ... in this order, each until it is bound; once all but two
\* pages are bound, at most MaxFillFail loads fail (the read delivers no byte,
\* after a seek that succeeds or not) and at most MaxFillReRef references are to
\* the first or the latest page bound
StepFill ==
    \E k \in {Cardinality({p \in Pages : page_table[p] # -1})} :
        \/ /\ k < NumPages
           /\ Translate(FillAddress(k), TRUE, PageSize, 0)
        \/ /\ k < NumPages
           /\ k >= NumPages - 2
           /\ history.failed < MaxFillFail
           /\ \E seek_ok \in BOOLEAN : Translate(FillAddress(k), seek_ok, 0, 0)
        \/ /\ k >= NumPages - 2
           /\ history.rerefs - history.failed < MaxFillReRef
           /\ \E j \in {0, k - 1} : Translate(FillAddress(j), TRUE, PageSize, 0)

NextFill == StepFill \/ EndOfStream

SpecFill == Init /\ [][NextFill]_vars

\* the state at the while loop for every outcome of the two fopen calls: main
\* reports a failed fopen on stderr and goes on
InitOpen ==
    /\ InitGlobals
    /\ backing_store \in {"open", "null"}
    /\ address_list \in {"open", "null"}

\* an iteration of the loop with backing_store null: the address a is read and
\* decoded, check_tlb misses, check_page_table counts the page fault and calls
\* fseek on the null FILE *, which is undefined: here the process is killed
NullStoreCrash(a) ==
    /\ ~done
    /\ address_list = "open"
    /\ backing_store = "null"
    /\ check_tlb(Globals, get_page_number(a)).ret = -1
    /\ page_table[get_page_number(a)] = -1
    /\ logical_address' = a
    /\ page_number' = get_page_number(a)
    /\ offset' = get_offset(a)
    /\ frame_number' = -1
    /\ page_faults' = page_faults + 1
    /\ done' = TRUE
    /\ exit_status' = "killed"
    /\ history' = [history EXCEPT !.count = @ + 1,
                                  !.referenced = @ \cup {get_page_number(a)},
                                  !.rerefs = @ + (IF get_page_number(a) \in history.referenced
                                                  THEN 1 ELSE 0),
                                  !.path = "killed"]
    /\ UNCHANGED <<page_table, free_frames, number_of_free_frames, tlb,
                   next_free_tlb_index, tlb_hits, physical_memory, temp_frame,
                   file_pos, physical_address, value, output, backing_store,
                   address_list>>

\* fgets on the null address_list, which is undefined: here the process is
\* killed (EndOfStream is the outcome in which fgets returns NULL)
NullSourceCrash ==
    /\ ~done
    /\ address_list = "null"
    /\ done' = TRUE
    /\ exit_status' = "killed"
    /\ UNCHANGED <<page_table, free_frames, number_of_free_frames, tlb,
                   next_free_tlb_index, page_faults, tlb_hits, physical_memory,
                   temp_frame, file_pos, logical_address, page_number, offset,
                   frame_number, physical_address, value, output, backing_store,
                   address_list, history>>

\* a run of Spec for every outcome of the two fopen calls; with backing_store
\* null, fseek and fread on it are undefined: the process is killed, or the two
\* calls fail (the seek fails, the read delivers no byte)
StepOpen ==
    /\ history.count < MaxStream
    /\ \E a \in Addresses, u \in UndefinedBytes :
          \/ /\ backing_store = "open"
             /\ \E seek_ok \in BOOLEAN, n \in ReadCounts : Translate(a, seek_ok, n, u)
          \/ /\ backing_store = "null"
             /\ Translate(a, FALSE, 0, u)

NextOpen ==
    \/ StepOpen
    \/ \E a \in Addresses : NullStoreCrash(a)
    \/ NullSourceCrash
    \/ EndOfStream

SpecOpen == InitOpen /\ [][NextOpen]_vars

-----------------------------------------------------------------------------
(* Properties *)

\* a step that is one translation (one iteration of the loop of main)
Translated == history'.count = history.count + 1

\* the pages the page table binds to a frame
BoundPages == {p \in Pages : page_table[p] # -1}

\* the pages of the last TLB_SIZE calls of update_tlb
LastInserted ==
    LET n == Len(history.inserted)
    IN  {history.inserted[j] : j \in (IF n > TLB_SIZE THEN (n - TLB_SIZE) + 1 ELSE 1) .. n}

\* C1 as stated: page_faults increases by exactly 1 on the first reference to a
\* page and by 0 on every later reference to it, also when reads can fail.
C1_OneFaultPerDistinctPage ==
    [][Translated =>
         page_faults' = page_faults +
                        (IF page_number' \in history.referenced THEN 0 ELSE 1)]_vars

\* C1 as amended: page_faults increases by exactly 1 on every reference to a
\* page that is unbound when it is referenced (the first reference, and a later
\* one when every load of the page so far has failed) and by 0 on every
\* reference to a bound page; page_faults is the number of bound pages plus the
\* number of failed loads, and the number of distinct pages referenced as long
\* as no load has failed.
C1_OneFaultPerUnboundReference ==
    /\ [][Translated =>
            page_faults' = page_faults +
                           (IF page_table[page_number'] = -1 THEN 1 ELSE 0)]_vars
    /\ [][Translated /\ page_number' \notin history.referenced =>
            page_faults' = page_faults + 1]_vars
    /\ [](page_faults = Cardinality(BoundPages) + history.failed)
    /\ [](history.failed = 0 => page_faults = Cardinality(history.referenced))

\* C1: a page whose load had failed was referenced again, faulted again and
\* was bound
C1_Witness ==
    /\ history.failed >= 1
    /\ history.rerefs >= 1
    /\ history.path = "page_fault"
    /\ page_faults > Cardinality(history.referenced)

\* C2: the TLB is a ring of TLB_SIZE slots written at next_free_tlb_index: it
\* holds exactly the pages of the last TLB_SIZE insertions, each in the slot of
\* its insertion; a lookup of any other page (the page inserted first, once 17
\* distinct pages were inserted) returns -1 and leaves tlb_hits alone, a lookup
\* of one of them hits, and a hit changes neither the slots nor the cursor.
C2_TlbIsFifo ==
    /\ [](next_free_tlb_index = Len(history.inserted) % TLB_SIZE)
    /\ [](\A j \in 1 .. Len(history.inserted) :
             j > Len(history.inserted) - TLB_SIZE =>
                /\ tlb[(j - 1) % TLB_SIZE].page_number = history.inserted[j]
                /\ tlb[(j - 1) % TLB_SIZE].valid = 1)
    /\ [](\A p \in Pages : (check_tlb(Globals, p).ret # -1) <=> (p \in LastInserted))
    /\ [][Translated /\ page_number' \notin LastInserted =>
            tlb_hits' = tlb_hits]_vars
    /\ [][Translated /\ page_number' \in LastInserted =>
            /\ tlb_hits' = tlb_hits + 1
            /\ tlb' = tlb
            /\ next_free_tlb_index' = next_free_tlb_index]_vars

\* C2: more than TLB_SIZE pages were inserted and the page inserted first was
\* looked up again: the lookup missed
C2_Witness ==
    /\ Len(history.inserted) > TLB_SIZE
    /\ page_number = history.inserted[1]
    /\ history.path = "page_table_hit"
    /\ tlb_hits = 0

\* C3 as stated: a translation that misses the TLB and is resolved by the page
\* table (a bound page, or a page fault) writes (page, frame) into the slot at
\* the cursor, so that a lookup of the page right after it hits.
C3_ResolvedMissIsInserted ==
    [][Translated /\ history'.path \in {"page_table_hit", "page_fault"} =>
         /\ tlb'[next_free_tlb_index] =
              [page_number |-> page_number', frame_number |-> frame_number', valid |-> 1]
         /\ TlbScan(tlb', page_number', 0) # -1]_vars

\* C4: tlb_hits increases by exactly 1 in a translation whose page is in a
\* valid TLB entry and by 0 in every other translation (and in no other step).
C4_TlbHitsCountTlbHits ==
    /\ [][Translated =>
            tlb_hits' = tlb_hits +
               (IF \E i \in TlbSlots : tlb[i].page_number = page_number' /\ tlb[i].valid = 1
                THEN 1 ELSE 0)]_vars
    /\ [][~Translated => tlb_hits' = tlb_hits]_vars

\* C4: a translation was resolved by the page table after a TLB miss, in a run
\* that had TLB hits and page faults before
C4_Witness ==
    /\ history.path = "page_table_hit"
    /\ tlb_hits > 0
    /\ page_faults > TLB_SIZE

\* C5: for every logical address A, the page number is ((A mod 65536) / 256)
\* mod 256 and the offset is (A mod 65536) mod 256, both in 0..255, and when a
\* frame F was resolved for the page, F is the frame the page is bound to and
\* the physical address is F * 256 + offset.
C5_DecodeAndPhysicalAddress ==
    history.count > 0 =>
        LET A == logical_address % 65536
        IN  /\ page_number = get_page_number(logical_address)
            /\ offset = get_offset(logical_address)
            /\ page_number = (A \div 256) % 256
            /\ offset = A % 256
            /\ page_number \in Pages
            /\ offset \in Offsets
            /\ frame_number # -1 =>
                  /\ frame_number = page_table[page_number]
                  /\ physical_address = (frame_number * 256) + offset

\* C5: an address with bits above bit 15 set was translated to the second
\* frame, at an offset that is not 0
C5_Witness ==
    /\ history.count = 2
    /\ (logical_address > 65535 \/ logical_address < 0)
    /\ frame_number = 1
    /\ offset > 0
    /\ physical_address = 256 + offset

\* C6 as stated: for every page bound to a frame, the 256 bytes of the frame
\* are the 256 bytes of the backing store at the page's offset, for every
\* outcome of the seek and of the read.
C6_FrameHoldsItsPage ==
    \A p \in BoundPages :
        /\ page_table[p] \in Frames
        /\ \A i \in Offsets :
              ByteOf(physical_memory[page_table[p]], i) = StoreByte((p * PageSize) + i)

\* C7 as stated: every access of physical_memory by the driver uses a frame
\* index and an offset in 0..255, and the physical address is one of a frame.
C7_FrameIndexInRange ==
    history.count > 0 =>
        /\ frame_number \in Frames
        /\ offset \in Offsets
        /\ physical_address \in 0 .. (StoreSize - 1)

\* C8 as stated: a translation whose page load failed prints no record, every
\* other translation prints one, and the two summary records end the output.
C8_RecordsOnlyForTranslatedAddresses ==
    LET recs == SelectSeq(output, LAMBDA r : r.kind = "translation")
    IN  /\ Len(recs) = history.count - history.failed
        /\ \A i \in 1 .. Len(recs) : recs[i].physical_address >= 0
        /\ done => /\ Len(output) = Len(recs) + 2
                   /\ output[Len(output) - 1] = [kind |-> "page_faults", count |-> page_faults]
                   /\ output[Len(output)] = [kind |-> "tlb_hits", count |-> tlb_hits]

\* C9: a page fault whose read fails (fread returns 0) leaves the page table,
\* the free-frame list, number_of_free_frames, physical memory and the TLB
\* (slots and cursor) as they were; the page stays unmapped.
C9_FailedLoadChangesNothing ==
    [][Translated /\ history'.path = "load_failed" =>
         /\ UNCHANGED <<page_table, free_frames, number_of_free_frames,
                        physical_memory, tlb, next_free_tlb_index>>
         /\ page_table'[page_number'] = -1
         /\ frame_number' = -1]_vars

\* C9: a page load failed in a run that had loaded another page before (a
\* frame is taken and a TLB slot is written)
C9_Witness ==
    /\ history.path = "load_failed"
    /\ history.delivered = 0
    /\ number_of_free_frames < NumFrames
    /\ next_free_tlb_index > 0

\* C10 as stated: a page load binds the page if and only if its seek succeeded
\* and its read delivered all 256 bytes.
C10_BoundOnlyAfterSeekAndFullRead ==
    history.path \in {"page_fault", "load_failed"} =>
        (history.path = "page_fault" <=>
            (history.seek_ok /\ history.delivered = PageSize))

\* the frames marked occupied in free_frames
OccupiedFrames == {f \in Frames : free_frames[f] = -1}

\* C12: no two distinct bound pages are bound to the same frame, and every
\* bound frame is a frame marked occupied in free_frames.
C12_PageTableInjective ==
    /\ \A p \in BoundPages, q \in BoundPages :
           p # q => page_table[p] # page_table[q]
    /\ \A p \in BoundPages :
           page_table[p] \in Frames /\ free_frames[page_table[p]] = -1

\* C12: two pages are bound, the second after a failed load
C12_Witness ==
    /\ Cardinality(BoundPages) = 2
    /\ history.failed >= 1
    /\ history.path = "page_fault"

\* C13: a bound page stays bound to its frame, an occupied frame stays
\* occupied, and number_of_free_frames never grows.
C13_BoundStaysBound ==
    /\ [][\A p \in Pages : page_table[p] # -1 => page_table'[p] = page_table[p]]_vars
    /\ [][\A f \in Frames : free_frames[f] = -1 => free_frames'[f] = -1]_vars
    /\ [][number_of_free_frames' <= number_of_free_frames]_vars

\* C13: the page bound first, evicted from the TLB since, went through
\* check_page_table again and is still bound to frame 0
C13_Witness ==
    /\ history.path = "page_table_hit"
    /\ Len(history.inserted) > TLB_SIZE
    /\ page_number = history.inserted[1]
    /\ page_table[page_number] = 0
    /\ free_frames[0] = -1

\* C14: a page load that succeeds takes the lowest-numbered free frame, marks
\* that frame and no other occupied and decrements number_of_free_frames by 1;
\* the n-th successful load of a run is bound to frame n - 1.
C14_LowestFreeFrame ==
    [][Translated /\ history'.path = "page_fault" =>
         LET free == {f \in Frames : free_frames[f] # -1}
         IN  /\ free # {}
             /\ frame_number' \in free
             /\ \A f \in free : frame_number' <= f
             /\ free_frames' = [free_frames EXCEPT ![frame_number'] = -1]
             /\ number_of_free_frames' = number_of_free_frames - 1
             /\ page_table'[page_number'] = frame_number'
             /\ frame_number' = Len(history.inserted)]_vars

\* C14: the load of the last page, after a failed load, took frame 255
C14_Witness ==
    /\ history.path = "page_fault"
    /\ history.failed >= 1
    /\ frame_number = NumFrames - 1
    /\ Len(history.inserted) = NumFrames

\* C15 as stated: when the backing store or the address file could not be
\* opened, no address is read or translated, nothing is printed on stdout, and
\* the process does not end with status 0.
C15_OpenFailureEndsTheRun ==
    (backing_store = "null" \/ address_list = "null") =>
        /\ history.count = 0
        /\ page_faults = 0
        /\ output = <<>>
        /\ exit_status # "exit_0"

\* C16: a successful translation of an address yields the frame of every
\* earlier successful translation of an address of the same page (physical
\* address frame * 256 + offset), by a TLB hit or by the page table; a
\* translation resolved by the page table after a TLB miss changes neither
\* page_faults nor tlb_hits.
C16_TranslationsAreStable ==
    /\ [](~done /\ history.count > 0 /\ frame_number # -1 =>
            \A i \in 1 .. (Len(output) - 1) :
                (/\ output[i].physical_address >= 0
                 /\ get_page_number(output[i].logical_address) = page_number)
                => /\ frame_number = output[i].physical_address \div 256
                   /\ physical_address = (frame_number * 256) + offset
                   /\ output[Len(output)].physical_address = physical_address)
    /\ [][Translated /\ history'.path = "page_table_hit" =>
            page_faults' = page_faults /\ tlb_hits' = tlb_hits]_vars

\* C16: a page translated before, evicted from the TLB since, was translated
\* again at another offset, by the page table
C16_Witness ==
    /\ ~done
    /\ history.path = "page_table_hit"
    /\ \E i \in 1 .. (Len(output) - 1) :
          /\ get_page_number(output[i].logical_address) = page_number
          /\ output[i].physical_address \div 256 = frame_number
          /\ output[i].physical_address # physical_address

\* C17: get_next_free_frame is never called without a free frame: a page load
\* returns -1 only when its read delivered no byte, a load whose read delivered
\* bytes finds number_of_free_frames > 0, and no valid TLB entry holds frame -1.
C17_NoFrameExhaustion ==
    /\ [](history.path = "load_failed" => history.delivered = 0)
    /\ [][Translated /\ page_faults' # page_faults /\ history'.delivered > 0 =>
            number_of_free_frames > 0 /\ frame_number' \in Frames]_vars
    /\ [](\A i \in TlbSlots : tlb[i].valid = 1 => tlb[i].frame_number \in Frames)
    /\ [](\A p \in BoundPages : page_table[p] \in Frames)

\* C17: every frame is taken, after a failed load, and a translation went on
C17_Witness ==
    /\ number_of_free_frames = 0
    /\ history.failed >= 1
    /\ Cardinality(BoundPages) = NumPages
    /\ history.path \in {"tlb_hit", "page_table_hit"}

\* C18: every valid TLB entry holds a page in 0..255 and the frame in 0..255
\* the page table binds the page to, and a TLB hit returns that frame.
C18_TlbCoherent ==
    /\ [](\A i \in TlbSlots :
             tlb[i].valid = 1 =>
                /\ tlb[i].page_number \in Pages
                /\ tlb[i].frame_number \in Frames
                /\ page_table[tlb[i].page_number] = tlb[i].frame_number)
    /\ [][Translated /\ history'.path = "tlb_hit" =>
            frame_number' = page_table[page_number']]_vars

\* C18: every slot of the TLB is valid and was overwritten, and the last
\* translation was a TLB hit
C18_Witness ==
    /\ \A i \in TlbSlots : tlb[i].valid = 1 /\ tlb[i].frame_number >= TLB_SIZE
    /\ history.path = "tlb_hit"

\* C19: no two valid TLB entries hold the same page, and no page is given to
\* update_tlb twice in a run.
C19_NoDuplicateTlbEntries ==
    /\ \A i \in TlbSlots, j \in TlbSlots :
          (i # j /\ tlb[i].valid = 1 /\ tlb[j].valid = 1) =>
             tlb[i].page_number # tlb[j].page_number
    /\ \A i \in 1 .. Len(history.inserted), j \in 1 .. Len(history.inserted) :
          i # j => history.inserted[i] # history.inserted[j]

\* C19: a page evicted from the TLB was referenced again twice, with every
\* slot of the TLB valid
C19_Witness ==
    /\ \A i \in TlbSlots : tlb[i].valid = 1
    /\ history.path = "page_table_hit"
    /\ history.rerefs >= 2
    /\ tlb_hits = 0
    /\ Len(history.inserted) = Cardinality(history.referenced)

\* C20: number_of_free_frames is the number of entries of free_frames that are
\* not -1 and is 256 minus the number of bound pages; with k pages bound the
\* occupied frames are 0..k-1, and so are the frames of the bound pages; the
\* scan of get_next_free_frame stops at k, an index of the array, whenever a
\* frame is free.
C20_FrameBookkeeping ==
    LET k == Cardinality(BoundPages)
    IN  /\ number_of_free_frames = Cardinality(Frames \ OccupiedFrames)
        /\ number_of_free_frames = NumFrames - k
        /\ OccupiedFrames = 0 .. (k - 1)
        /\ {page_table[p] : p \in BoundPages} = 0 .. (k - 1)
        /\ number_of_free_frames > 0 =>
              FreeScan(free_frames, 0) \in Frames /\ FreeScan(free_frames, 0) = k

\* C20: one frame is free, the last of the array
C20_Witness ==
    /\ number_of_free_frames = 1
    /\ FreeScan(free_frames, 0) = NumFrames - 1
    /\ history.failed >= 1

====
